---- MODULE Spec2Model ----
(***************************************************************************)
(* Request engine of the Scrapebit SDK (src/src/utils/http.ts) and its     *)
(* error taxonomy (src/src/utils/errors.ts).                               *)
(*                                                                         *)
(* One request call is a coroutine that suspends at three await points:    *)
(* the fetch (raced against the abort timer), the body decode              *)
(* (response.json()) and the backoff sleep.  Every action below is the     *)
(* synchronous code that runs between two await points.                    *)
(***************************************************************************)
EXTENDS Integers, Sequences, FiniteSets, TLC

(***************************************************************************)
(* JavaScript values.  Every value is a record of one shape: t is the      *)
(* type tag, s the string payload, n the numeric payload, f the own        *)
(* properties of an object.                                                *)
(***************************************************************************)
NoFields == [k \in {} |-> 0]

JUndefined == [t |-> "undefined", s |-> "", n |-> 0, f |-> NoFields]

JNull == [t |-> "null", s |-> "", n |-> 0, f |-> NoFields]

JNum(n) == [t |-> "number", s |-> "", n |-> n, f |-> NoFields]

JStr(s) == [t |-> "string", s |-> s, n |-> 0, f |-> NoFields]

JBool(b) ==
  [t |-> "boolean", s |-> "", n |-> IF b THEN 1 ELSE 0, f |-> NoFields]

JArr == [t |-> "array", s |-> "", n |-> 0, f |-> NoFields]

JObj(f) == [t |-> "object", s |-> "", n |-> 0, f |-> f]

\* JavaScript truthiness (the left operand test of `||` and `&&`).
Truthy(v) ==
  CASE v.t = "undefined" -> FALSE
    [] v.t = "null" -> FALSE
    [] v.t = "NaN" -> FALSE
    [] v.t = "boolean" -> v.n = 1
    [] v.t = "number" -> v.n # 0
    [] v.t = "string" -> v.s # ""
    [] OTHER -> TRUE

\* a || b
Or(a, b) == IF Truthy(a) THEN a ELSE b

\* Property read v.k on a non-null value: undefined when v has no such key.
Get(v, k) == IF v.t = "object" /\ k \in DOMAIN v.f THEN v.f[k] ELSE JUndefined

\* `k in v` for an object or array v.
HasKey(v, k) == v.t = "object" /\ k \in DOMAIN v.f

\* { ...a, ...b }: the own properties of a overlaid by those of b; spreading
\* undefined adds nothing.
Spread(a, b) == JObj(b.f @@ a.f)

\* A prefix test that compares the lengths only.
StartsWith_lengthOnly(s, prefix) == Len(s) >= Len(prefix)

\* s.startsWith(prefix)
StartsWith(s, prefix) ==
  Len(s) >= Len(prefix) /\ SubSeq(s, 1, Len(prefix)) = prefix

\* String(v), as used by template literals and by Error(message).
ToStr(v) ==
  CASE v.t = "string" -> v.s
    [] v.t = "number" -> ToString(v.n)
    [] v.t = "undefined" -> "undefined"
    [] v.t = "null" -> "null"
    [] v.t = "array" -> ""
    [] v.t = "NaN" -> "NaN"
    [] v.t = "boolean" -> IF v.n = 1 THEN "true" ELSE "false"
    [] OTHER -> "[object Object]"

\* Numerals the model's bodies use, with the integer parseInt reads from them.
Numerals == ("30" :> 30) @@ ("0" :> 0) @@ ("12s" :> 12)

\* NaN, a falsy number.
JNaN == [t |-> "NaN", s |-> "", n |-> 0, f |-> NoFields]

\* parseInt(v, 10).
ParseInt(v) ==
  CASE v.t = "number" -> v
    [] v.t = "string" /\ v.s \in DOMAIN Numerals -> JNum(Numerals[v.s])
    [] OTHER -> JNaN

(***************************************************************************)
(* Error taxonomy, src/src/utils/errors.ts.  scrapebit is TRUE for the     *)
(* instances of ScrapebitError; own holds the fields a subclass adds.      *)
(***************************************************************************)
ScrapebitError(message, code, statusCode, details) ==
  [name |-> "ScrapebitError", scrapebit |-> TRUE, message |-> message,
   code |-> code, statusCode |-> statusCode, details |-> details,
   own |-> NoFields]

AuthenticationError(message) ==
  [ScrapebitError(message, "AUTHENTICATION_ERROR", JNum(401), JUndefined)
     EXCEPT !.name = "AuthenticationError"]

AuthorizationError(message) ==
  [ScrapebitError(message, "AUTHORIZATION_ERROR", JNum(403), JUndefined)
     EXCEPT !.name = "AuthorizationError"]

NotFoundError(resource, id) ==
  [ScrapebitError(IF Truthy(id)
                    THEN resource \o " with ID '" \o ToStr(id) \o "' not found"
                    ELSE resource \o " not found",
                  "NOT_FOUND", JNum(404), JUndefined)
     EXCEPT !.name = "NotFoundError"]

ValidationError(message, field) ==
  [ScrapebitError(message, "VALIDATION_ERROR", JNum(400),
                  IF Truthy(field) THEN JObj("field" :> field) ELSE JUndefined)
     EXCEPT !.name = "ValidationError",
            !.own = "field" :> field]

RateLimitError(retryAfter) ==
  [ScrapebitError(IF Truthy(retryAfter)
                    THEN "Rate limit exceeded. Retry after "
                           \o ToStr(retryAfter) \o " seconds."
                    ELSE "Rate limit exceeded.",
                  "RATE_LIMIT_EXCEEDED", JNum(429),
                  IF Truthy(retryAfter)
                    THEN JObj("retryAfter" :> retryAfter)
                    ELSE JUndefined)
     EXCEPT !.name = "RateLimitError",
            !.own = "retryAfter" :> retryAfter]

InsufficientCreditsError(creditsRequired, creditsRemaining) ==
  [ScrapebitError("Insufficient credits. Required: " \o ToStr(creditsRequired)
                    \o ", Remaining: " \o ToStr(creditsRemaining),
                  "INSUFFICIENT_CREDITS", JNum(402),
                  JObj(("creditsRequired" :> creditsRequired)
                       @@ ("creditsRemaining" :> creditsRemaining)))
     EXCEPT !.name = "InsufficientCreditsError",
            !.own = ("creditsRequired" :> creditsRequired)
                    @@ ("creditsRemaining" :> creditsRemaining)]

TimeoutError(timeoutMs) ==
  [ScrapebitError("Request timed out after " \o ToString(timeoutMs) \o "ms",
                  "TIMEOUT", JNum(408), JObj("timeoutMs" :> JNum(timeoutMs)))
     EXCEPT !.name = "TimeoutError"]

\* NetworkError built with a client-error status code.
NetworkError_withStatus(message) ==
  [ScrapebitError(message, "NETWORK_ERROR", JNum(400), JUndefined)
     EXCEPT !.name = "NetworkError"]

NetworkError(message) ==
  [ScrapebitError(message, "NETWORK_ERROR", JUndefined, JUndefined)
     EXCEPT !.name = "NetworkError"]

ServerError(statusCode, message) ==
  [ScrapebitError(message, "SERVER_ERROR", JNum(statusCode), JUndefined)
     EXCEPT !.name = "ServerError"]

\* The TypeError the runtime throws for a property read on null and for the
\* `in` operator applied to a primitive: an Error that is no ScrapebitError.
TypeError(message) ==
  [name |-> "TypeError", scrapebit |-> FALSE, message |-> message,
   code |-> "", statusCode |-> JUndefined, details |-> JUndefined,
   own |-> NoFields]

(***************************************************************************)
(* Bounds and inputs.                                                      *)
(***************************************************************************)
\* Largest retry count a configuration of the model asks for.
MaxRetries == 5

\* The request calls of the model; a specification chooses which of them run.
Calls == {1, 2}

\* ScrapebitConfig values (src/src/types/index.ts): retries and timeout are
\* optional numbers; a caller may pass zero or a negative retry count.
Configs ==
  { JObj(r @@ t) :
      r \in {NoFields} \cup { "retries" :> JNum(n) : n \in -1 .. MaxRetries },
      t \in {NoFields, "timeout" :> JNum(100)} }

\* RequestOptions values: the per-call timeout is optional.
RequestOptionsSet ==
  { JObj(NoFields), JObj("timeout" :> JNum(0)), JObj("timeout" :> JNum(50)) }

\* HTTP responses a server can give: status and status text.
Statuses == {200, 204, 304, 400, 401, 402, 403, 404, 429, 500, 503}

Responses == { [status |-> st, statusText |-> "status text"] : st \in Statuses }

NoResponse == [status |-> 0, statusText |-> ""]

\* Values a response body can decode to.
Payload == JObj("x" :> JNum(1))

Bodies ==
  { JNull, JNum(1), JStr("text"), JArr, JObj(NoFields), Payload,
    JObj(("success" :> JBool(TRUE)) @@ ("data" :> Payload)),
    JObj(("success" :> JBool(FALSE)) @@ ("data" :> JNull)
         @@ ("error" :> JStr("failed"))),
    JObj(("success" :> JBool(FALSE)) @@ ("data" :> JNull)
         @@ ("error" :> JObj(("code" :> JStr("INVALID_URL"))
                             @@ ("message" :> JStr("bad url"))))),
    JObj("success" :> JBool(TRUE)),
    JObj("data" :> Payload),
    JObj("error" :> JStr("bad request")),
    JObj(("message" :> JStr("went wrong")) @@ ("code" :> JStr("E_CODE"))),
    JObj(("creditsRequired" :> JNum(5)) @@ ("creditsRemaining" :> JNum(2))),
    JObj(("creditsRequired" :> JNum(0)) @@ ("creditsRemaining" :> JNum(0))),
    JObj("retryAfter" :> JNum(30)),
    JObj("retryAfter" :> JNum(0)),
    JObj("retryAfter" :> JStr("30")),
    JObj("retryAfter" :> JStr("12s")),
    JObj("retryAfter" :> JStr("soon")) }

\* The rejection of response.json(): empty or malformed body.
JsonRejected == [t |-> "rejected", s |-> "", n |-> 0, f |-> NoFields]

\* Errors a fetch rejects with when the transport fails.
TransportErrors ==
  { [name |-> "TypeError", message |-> "fetch failed"] }

\* The error a fetch rejects with when its signal is aborted.
AbortError == [name |-> "AbortError", message |-> "This operation was aborted"]

\* HttpClient that does not keep the key it is constructed with.
HttpClient_keyNotStored(apiKey, config) ==
  [apiKey |-> JUndefined,
   timeout |-> Or(Get(config, "timeout"), JNum(30000)).n,
   retries |-> Or(Get(config, "retries"), JNum(3)).n,
   customHeaders |-> Or(Get(config, "headers"), JObj(NoFields))]

(***************************************************************************)
(* HttpClient, src/src/utils/http.ts.                                      *)
(***************************************************************************)
\* constructor
HttpClient(apiKey, config) ==
  [apiKey |-> apiKey,
   timeout |-> Or(Get(config, "timeout"), JNum(30000)).n,
   retries |-> Or(Get(config, "retries"), JNum(3)).n,
   customHeaders |-> Or(Get(config, "headers"), JObj(NoFields))]

\* The engine field values before an engine exists.
NoClient ==
  [apiKey |-> JUndefined, timeout |-> 0, retries |-> 0,
   customHeaders |-> JUndefined]

\* The headers literal with the built-in set spread last.
RequestHeaders_builtinsLast(options, this) ==
  Spread(Spread(this.customHeaders, Get(options, "headers")),
         JObj(("Authorization" :> JStr("Bearer " \o ToStr(this.apiKey)))
              @@ ("Content-Type" :> JStr("application/json"))
              @@ ("User-Agent" :> JStr("scrapebit-sdk-node/1.0.0"))))

\* request, lines 57-63: the headers of the call's fetches.
RequestHeaders(options, this) ==
  Spread(Spread(JObj(("Authorization" :> JStr("Bearer " \o ToStr(this.apiKey)))
                     @@ ("Content-Type" :> JStr("application/json"))
                     @@ ("User-Agent" :> JStr("scrapebit-sdk-node/1.0.0"))),
                this.customHeaders),
         Get(options, "headers"))

\* request, line 54: the method of the call's fetches.
RequestMethod(options) == ToStr(Or(Get(options, "method"), JStr("GET")))

\* JSON.stringify(v), read back as the value the text denotes: properties
\* whose value is undefined are left out, at every level of the model's
\* bodies.
stringify(v) ==
  LET defined(o) == { k \in DOMAIN o.f : o.f[k].t # "undefined" }
      inner(o) == IF o.t = "object"
                    THEN JObj([k \in defined(o) |-> o.f[k]]) ELSE o
  IN IF v.t = "object"
       THEN JObj([k \in defined(v) |-> inner(v.f[k])]) ELSE v

\* request, lines 69-73: the method and the body given to fetch.
FetchInit(options) ==
  [method |-> RequestMethod(options),
   body |-> IF Truthy(Get(options, "body"))
              THEN stringify(Get(options, "body")) ELSE JUndefined]

\* get(endpoint, options), line 102: the options request is called with.
get(options) == Spread(options, JObj("method" :> JStr("GET")))

\* post(endpoint, body, options), line 109: the options request is called
\* with.
post(body, options) ==
  Spread(options, JObj(("method" :> JStr("POST")) @@ ("body" :> body)))

\* The timeout taken from the engine alone, the per-call option ignored.
RequestTimeout_ignoresOptions(options, this) == this.timeout

\* request, line 55: the timeout of the call's attempts.
RequestTimeout(options, this) ==
  Or(Get(options, "timeout"), JNum(this.timeout)).n

\* The backoff delay without its 10 s cap.
BackoffDelay_uncapped(attempt) == 1000 * 2 ^ attempt

\* request, line 90: the backoff delay after failed attempt `attempt`.
BackoffDelay(attempt) ==
  LET d == 1000 * 2 ^ attempt IN IF d < 10000 THEN d ELSE 10000

\* Result of a function body: a returned value or a thrown error.
Return(v) == [k |-> "return", value |-> v, error |-> <<>>]

Throw(e) == [k |-> "throw", value |-> JUndefined, error |-> <<e>>]

\* fetchWithTimeout, lines 150-154: classification of a rejected fetch.
FetchFailure(error, timeout) ==
  IF error.name = "AbortError"
    THEN TimeoutError(timeout)
    ELSE NetworkError(error.message)

\* handleErrorResponse
handleErrorResponse(statusCode, data) ==
  IF data.t \in {"null", "undefined"}
    THEN Throw(TypeError("Cannot read properties of null (reading 'error')"))
    ELSE
      LET message == ToStr(Or(Or(Get(data, "error"), Get(data, "message")),
                              JStr("Unknown error")))
          code == Get(data, "code")
      IN CASE statusCode = 401 -> Throw(AuthenticationError(message))
           [] statusCode = 402 ->
                Throw(InsufficientCreditsError(
                        Or(Get(data, "creditsRequired"), JNum(1)),
                        Or(Get(data, "creditsRemaining"), JNum(0))))
           [] statusCode = 403 -> Throw(AuthorizationError(message))
           [] statusCode = 404 -> Throw(NotFoundError("Resource", JUndefined))
           [] statusCode = 429 ->
                Throw(RateLimitError(Or(ParseInt(Get(data, "retryAfter")),
                                        JUndefined)))
           [] OTHER ->
                IF statusCode >= 500
                  THEN Throw(ServerError(statusCode, message))
                  ELSE Throw(ScrapebitError(message,
                                            ToStr(Or(code, JStr("API_ERROR"))),
                                            JNum(statusCode), JUndefined))

\* Response.ok
Ok(response) == response.status \in 200 .. 299

\* handleResponse raising on every undecodable body, successful status or not.
handleResponse_throwsOnEmptyBody(response, data) ==
  IF data = JsonRejected
    THEN Throw(ServerError(response.status,
                           "HTTP " \o ToString(response.status) \o ": "
                             \o response.statusText))
    ELSE IF ~Ok(response)
           THEN handleErrorResponse(response.status, data)
           ELSE IF data.t \notin {"object", "array"}
                  THEN Throw(TypeError("Cannot use 'in' operator"))
                  ELSE IF HasKey(data, "success") /\ HasKey(data, "data")
                         THEN Return(Get(data, "data"))
                         ELSE Return(data)

\* handleResponse; data is the value response.json() resolved with, or
\* JsonRejected when it rejected.
handleResponse(response, data) ==
  IF data = JsonRejected
    THEN IF ~Ok(response)
           THEN Throw(ServerError(response.status,
                                  "HTTP " \o ToString(response.status) \o ": "
                                    \o response.statusText))
           ELSE Return(JObj(NoFields))
    ELSE IF ~Ok(response)
           THEN handleErrorResponse(response.status, data)
           ELSE IF data.t \notin {"object", "array"}
                  THEN Throw(TypeError("Cannot use 'in' operator"))
                  ELSE IF HasKey(data, "success") /\ HasKey(data, "data")
                         THEN Return(Get(data, "data"))
                         ELSE Return(data)

(***************************************************************************)
(* Scrapebit, the facade (src/unnamed/part_001).                           *)
(***************************************************************************)
\* The API modules the constructor creates, lines 125-132.
ApiModules ==
  {"content", "pdf", "screenshot", "schedule", "credits", "monitoring",
   "deepResearch", "usage"}

\* console.warn text, lines 116-119.
PrefixWarning ==
  "Warning: API key does not start with \"sb_live_\". "
    \o "Make sure you are using a valid Scrapebit API key."

\* The facade before its constructor ran.
NewSdk ==
  [state |-> "new", error |-> <<>>, warnings |-> <<>>, http |-> NoClient,
   modules |-> {}]

\* A constructor without the test for a missing key.
Scrapebit_noKeyCheck(apiKey, config) ==
  IF apiKey.t # "string"
    THEN [NewSdk EXCEPT
            !.state = "failed",
            !.error = <<ValidationError("API key must be a string",
                                        JUndefined)>>]
    ELSE [NewSdk EXCEPT
            !.state = "ready",
            !.warnings = IF ~StartsWith(apiKey.s, "sb_live_")
                           THEN <<PrefixWarning>> ELSE <<>>,
            !.http = HttpClient(apiKey,
                                IF config = JUndefined
                                  THEN JObj(NoFields) ELSE config),
            !.modules = ApiModules]

\* constructor, lines 106-133: the facade after construction, or the error
\* thrown and nothing built.
Scrapebit(apiKey, config) ==
  IF ~Truthy(apiKey)
    THEN [NewSdk EXCEPT
            !.state = "failed",
            !.error = <<ValidationError("API key is required", JUndefined)>>]
    ELSE IF apiKey.t # "string"
           THEN [NewSdk EXCEPT
                   !.state = "failed",
                   !.error = <<ValidationError("API key must be a string",
                                               JUndefined)>>]
           ELSE [NewSdk EXCEPT
                   !.state = "ready",
                   !.warnings = IF ~StartsWith(apiKey.s, "sb_live_")
                                  THEN <<PrefixWarning>> ELSE <<>>,
                   !.http = HttpClient(apiKey,
                                       IF config = JUndefined
                                         THEN JObj(NoFields) ELSE config),
                   !.modules = ApiModules]

(***************************************************************************)
(* State.                                                                  *)
(*   env     what the environment of a run can supply: constructor         *)
(*           arguments, request options, responses and bodies, and whether *)
(*           the observer keeps the whole outcome sequence of a call       *)
(*   apiKey, config  the arguments the facade is constructed with          *)
(*   sdk     the facade: constructed or not, the error its constructor     *)
(*           threw, the warnings it printed, its API modules               *)
(*   client  the HttpClient instance (read-only after construction)        *)
(*   call    per request call: its position and its local variables        *)
(*   hist    per request call: what an observer of the call has seen:      *)
(*           the number of fetch calls, the headers of the last fetch,     *)
(*           the backoff delays slept, the outcome of the last finished    *)
(*           attempt, and whether every attempt so far got an HTTP 500 /   *)
(*           a transport failure                                           *)
(*   api     per request call: the wrapper method that made it, if any,    *)
(*           and what that method returned or threw                        *)
(***************************************************************************)
VARIABLES env, apiKey, config, sdk, client, call, hist, api

vars == <<env, apiKey, config, sdk, client, call, hist, api>>

\* A call before request is entered.
NewCall(pc) ==
  [pc |-> pc, options |-> JUndefined, timeout |-> 0, headers |-> JUndefined,
   attempt |-> 0, lastError |-> <<>>, timer |-> "none", transport |-> "none",
   timerMs |-> 0, response |-> NoResponse, delay |-> 0,
   result |-> JUndefined, raised |-> <<>>]

NoAttempt ==
  [kind |-> "none", status |-> 0, statusText |-> "", body |-> JUndefined,
   error |-> [name |-> "", message |-> ""]]

NewHist ==
  [fetches |-> 0, sent |-> JUndefined,
   init |-> [method |-> "", body |-> JUndefined],
   waits |-> <<>>, last |-> NoAttempt,
   all500 |-> TRUE, allNetwork |-> TRUE, script |-> <<>>]

\* No wrapper method called.
NewApiCall ==
  [pc |-> "idle", method |-> "", arg |-> JUndefined, endpoint |-> "",
   value |-> JUndefined, raised |-> <<>>]

\* fetchWithTimeout, lines 141-148: arm the abort timer and start the fetch.
StartFetch(k) ==
  [k EXCEPT !.pc = "fetch", !.timer = "pending", !.timerMs = k.timeout,
            !.transport = "inflight", !.response = NoResponse, !.delay = 0]

\* request, line 95.
AfterLoop(k) ==
  [k EXCEPT !.pc = "thrown",
            !.raised = IF k.lastError # <<>>
                         THEN k.lastError
                         ELSE <<ScrapebitError("Request failed after retries",
                                               "SCRAPEBIT_ERROR",
                                               JUndefined, JUndefined)>>]

\* A loop test that lets one more attempt through.
LoopTest_oneMore(k, this) ==
  IF k.attempt <= this.retries + 1 THEN StartFetch(k) ELSE AfterLoop(k)

\* request, line 67: the loop test before an attempt.
LoopTest(k, this) ==
  IF k.attempt <= this.retries THEN StartFetch(k) ELSE AfterLoop(k)

\* request, lines 76-92: the catch block of an attempt.
Catch(k, this, error) ==
  LET k1 == [k EXCEPT !.lastError = <<error>>] IN
  IF error.scrapebit /\ Truthy(error.statusCode) /\ error.statusCode.n < 500
    THEN [k1 EXCEPT !.pc = "thrown", !.raised = <<error>>]
    ELSE IF k.attempt = this.retries
           THEN [k1 EXCEPT !.pc = "thrown", !.raised = <<error>>]
           ELSE [k1 EXCEPT !.pc = "sleep", !.delay = BackoffDelay(k.attempt)]

\* request, line 75 and the catch block: what follows a settled attempt.
Settle(k, this, outcome) ==
  IF outcome.k = "return"
    THEN [k EXCEPT !.pc = "returned", !.result = outcome.value]
    ELSE Catch(k, this, outcome.error[1])

\* request, lines 53-73: entry up to the first await.
Enter(k, this, options) ==
  LoopTest([k EXCEPT !.options = options,
                     !.timeout = RequestTimeout(options, this),
                     !.headers = RequestHeaders(options, this),
                     !.attempt = 0], this)

\* A fetch that resolved without its timer being cleared.
OnFetchResolved_timerLeft(k, response) ==
  [k EXCEPT !.pc = "json", !.transport = "responded", !.response = response]

\* fetchWithTimeout, lines 145-149 and 156; handleResponse, line 167: the
\* fetch resolved with a response, the timer is cleared, the decode starts.
OnFetchResolved(k, response) ==
  [k EXCEPT !.pc = "json", !.timer = "cleared", !.transport = "responded",
            !.response = response]

\* fetchWithTimeout, lines 150-156, and the catch block of request: the
\* fetch rejected for a transport failure.
OnFetchRejected(k, this, error) ==
  Catch([k EXCEPT !.timer = "cleared", !.transport = "failed"],
        this, FetchFailure(error, k.timeout))

\* fetchWithTimeout, lines 142 and 150-156, and the catch block of request:
\* the timer fired first; its callback aborted the fetch, which rejected
\* with an AbortError.
OnTimer(k, this) ==
  Catch([k EXCEPT !.timer = "fired", !.transport = "aborted"],
        this, FetchFailure(AbortError, k.timeout))

\* handleResponse, lines 167-186, once response.json() settled with data.
OnJson(k, this, data) == Settle(k, this, handleResponse(k.response, data))

\* request, lines 91 and 67: the backoff sleep ended, the loop goes on.
OnSleepEnd(k, this) == LoopTest([k EXCEPT !.attempt = @ + 1], this)

\* The observer's record after call c moved to k: fetch calls with their
\* headers, method and body, and sleeps.
Observe(h, k) ==
  [h EXCEPT !.fetches = IF k.pc = "fetch" THEN @ + 1 ELSE @,
            !.sent = IF k.pc = "fetch" THEN k.headers ELSE @,
            !.init = IF k.pc = "fetch" THEN FetchInit(k.options) ELSE @,
            !.waits = IF k.pc = "sleep" THEN Append(@, k.delay) ELSE @]

\* The observer's record of a finished attempt.
Outcome(kind, response, body, error) ==
  [kind |-> kind, status |-> response.status,
   statusText |-> response.statusText, body |-> body, error |-> error]

Finished(h, outcome) ==
  [h EXCEPT !.last = outcome,
            !.script = IF env.trace THEN Append(@, outcome) ELSE @]

(***************************************************************************)
(* Environments and initial states.                                        *)
(***************************************************************************)
ValidKey == JStr("sb_live_key")

\* The environment of the engine's runs: one valid key, every configuration,
\* option, response and body of the model.
EngineEnv ==
  [keys |-> {ValidKey}, configs |-> Configs, options |-> RequestOptionsSet,
   responses |-> Responses, bodies |-> Bodies, trace |-> FALSE]

\* Before `new Scrapebit(apiKey, config)`: pcs says which calls will be made.
Start(e, pcs) ==
  /\ env = e
  /\ apiKey \in e.keys
  /\ config \in e.configs
  /\ sdk = NewSdk
  /\ client = NoClient
  /\ call = [c \in Calls |-> NewCall(pcs[c])]
  /\ hist = [c \in Calls |-> NewHist]
  /\ api = [c \in Calls |-> NewApiCall]

Init == Start(EngineEnv, [c \in Calls |-> IF c = 1 THEN "ready" ELSE "off"])

\* A constructor that creates the HttpClient before it validates the key.
Construct_engineFirst ==
  /\ sdk.state = "new"
  /\ sdk' = Scrapebit(apiKey, config)
  /\ client' = HttpClient(apiKey,
                          IF config = JUndefined THEN JObj(NoFields)
                                                 ELSE config)
  /\ UNCHANGED <<env, apiKey, config, call, hist, api>>

\* new Scrapebit(apiKey, config)
Construct ==
  /\ sdk.state = "new"
  /\ sdk' = Scrapebit(apiKey, config)
  /\ client' = sdk'.http
  /\ UNCHANGED <<env, apiKey, config, call, hist, api>>

\* http.request(endpoint, options), up to the first await.
Request(c) ==
  /\ sdk.state = "ready"
  /\ call[c].pc = "ready"
  /\ \E options \in env.options :
       LET k == Enter(call[c], client, options)
       IN /\ call' = [call EXCEPT ![c] = k]
          /\ hist' = [hist EXCEPT ![c] = Observe(@, k)]
  /\ UNCHANGED <<env, apiKey, config, sdk, client, api>>

\* The fetch of call c resolves with a response.
FetchResolves(c) ==
  /\ call[c].pc = "fetch"
  /\ \E response \in env.responses :
       /\ call' = [call EXCEPT ![c] = OnFetchResolved(@, response)]
       /\ hist' = [hist EXCEPT ![c] =
                     [@ EXCEPT !.all500 = @ /\ response.status = 500,
                               !.allNetwork = FALSE]]
  /\ UNCHANGED <<env, apiKey, config, sdk, client, api>>

\* The fetch of call c rejects for a transport failure.
FetchRejects(c) ==
  /\ call[c].pc = "fetch"
  /\ \E error \in TransportErrors :
       LET k == OnFetchRejected(call[c], client, error)
       IN /\ call' = [call EXCEPT ![c] = k]
          /\ hist' = [hist EXCEPT ![c] =
                        Observe(Finished([@ EXCEPT !.all500 = FALSE],
                                         Outcome("network", NoResponse,
                                                 JUndefined, error)), k)]
  /\ UNCHANGED <<env, apiKey, config, sdk, client, api>>

\* The abort timer of call c fires before its fetch settled.
TimerFires(c) ==
  /\ call[c].pc = "fetch"
  /\ call[c].timer = "pending"
  /\ LET k == OnTimer(call[c], client)
     IN /\ call' = [call EXCEPT ![c] = k]
        /\ hist' = [hist EXCEPT ![c] =
                      Observe(Finished([@ EXCEPT !.all500 = FALSE,
                                                 !.allNetwork = FALSE],
                                       Outcome("timeout", NoResponse,
                                               JUndefined, AbortError)), k)]
  /\ UNCHANGED <<env, apiKey, config, sdk, client, api>>

\* response.json() of call c resolves with a decoded body.
JsonResolves(c) ==
  /\ call[c].pc = "json"
  /\ \E data \in env.bodies :
       LET k == OnJson(call[c], client, data)
       IN /\ call' = [call EXCEPT ![c] = k]
          /\ hist' = [hist EXCEPT ![c] =
                        Observe(Finished(@, Outcome("http", call[c].response,
                                                    data, NoAttempt.error)),
                                k)]
  /\ UNCHANGED <<env, apiKey, config, sdk, client, api>>

\* response.json() of call c rejects: empty or malformed body.
JsonRejects(c) ==
  /\ call[c].pc = "json"
  /\ LET k == OnJson(call[c], client, JsonRejected)
     IN /\ call' = [call EXCEPT ![c] = k]
        /\ hist' = [hist EXCEPT ![c] =
                      Observe(Finished(@, Outcome("http", call[c].response,
                                                  JsonRejected,
                                                  NoAttempt.error)), k)]
  /\ UNCHANGED <<env, apiKey, config, sdk, client, api>>

\* A sleep whose end advances one attempt counter shared by all calls.
SleepEnds_sharedAttempt(c) ==
  /\ call[c].pc = "sleep"
  /\ LET k == OnSleepEnd(call[c], client)
     IN /\ call' = [d \in Calls |->
                      IF d = c THEN k
                      ELSE IF call[d].pc \in {"fetch", "json", "sleep"}
                             THEN [call[d] EXCEPT !.attempt = @ + 1]
                             ELSE call[d]]
        /\ hist' = [hist EXCEPT ![c] = Observe(@, k)]
  /\ UNCHANGED <<env, apiKey, config, sdk, client, api>>

\* The backoff sleep of call c ends.
SleepEnds(c) ==
  /\ call[c].pc = "sleep"
  /\ LET k == OnSleepEnd(call[c], client)
     IN /\ call' = [call EXCEPT ![c] = k]
        /\ hist' = [hist EXCEPT ![c] = Observe(@, k)]
  /\ UNCHANGED <<env, apiKey, config, sdk, client, api>>

Next ==
  \/ Construct
  \/ \E c \in Calls :
       \/ Request(c)
       \/ FetchResolves(c)
       \/ FetchRejects(c)
       \/ TimerFires(c)
       \/ JsonResolves(c)
       \/ JsonRejects(c)
       \/ SleepEnds(c)

Spec == Init /\ [][Next]_vars

(***************************************************************************)
(* Requests with headers: configured extra headers (ScrapebitConfig        *)
(* .headers) and per-call headers (RequestOptions.headers).                *)
(***************************************************************************)
\* Header names as fetch compares them: without regard to letter case.
Lower(name) ==
  CASE name \in {"Authorization", "authorization"} -> "authorization"
    [] name = "Content-Type" -> "content-type"
    [] name = "User-Agent" -> "user-agent"
    [] name = "X-Trace" -> "x-trace"
    [] OTHER -> name

ExtraHeaderSets ==
  { JObj("X-Trace" :> JStr("cfg")),
    JObj(("X-Trace" :> JStr("cfg")) @@ ("Content-Type" :> JStr("text/plain"))),
    JObj("Authorization" :> JStr("Basic cfg")),
    JObj("authorization" :> JStr("Basic cfg")) }

CallHeaderSets ==
  { JObj("X-Trace" :> JStr("call")),
    JObj(("X-Trace" :> JStr("call")) @@ ("User-Agent" :> JStr("curl"))),
    JObj("Authorization" :> JStr("Basic call")),
    JObj(NoFields) }

HeadersEnv ==
  [keys |-> {ValidKey, JStr("invalid_key")},
   configs |-> {JObj("retries" :> JNum(1))}
                 \cup { JObj(("retries" :> JNum(1)) @@ ("headers" :> h)) :
                          h \in ExtraHeaderSets },
   options |-> {JObj(NoFields)}
                 \cup { JObj("headers" :> h) : h \in CallHeaderSets },
   responses |-> { r \in Responses : r.status \in {200, 500} },
   bodies |-> {Payload},
   trace |-> FALSE]

InitHeaders ==
  Start(HeadersEnv, [c \in Calls |-> IF c = 1 THEN "ready" ELSE "off"])

SpecHeaders == InitHeaders /\ [][Next]_vars

(***************************************************************************)
(* Construction with every kind of key: strings with and without the       *)
(* prefix, the empty string, and values that are no strings.               *)
(***************************************************************************)
StringKeys ==
  { JStr(""), ValidKey, JStr("sb_live_"), JStr("sb_live"),
    JStr("invalid_key") }

NonStringKeys ==
  { JNum(123), JNum(0), JNaN, JBool(TRUE), JBool(FALSE), JNull, JUndefined,
    JObj(NoFields) }

FacadeEnv ==
  [keys |-> StringKeys \cup NonStringKeys,
   configs |-> {JUndefined, JObj("retries" :> JNum(1))},
   options |-> {JObj(NoFields)},
   responses |-> { r \in Responses : r.status \in {200, 500} },
   bodies |-> {Payload},
   trace |-> FALSE]

InitFacade ==
  Start(FacadeEnv, [c \in Calls |-> IF c = 1 THEN "ready" ELSE "off"])

SpecFacade == InitFacade /\ [][Next]_vars

(***************************************************************************)
(* Two request calls in flight on one HttpClient.                          *)
(***************************************************************************)
ConcurrentEnv ==
  [keys |-> {ValidKey},
   configs |-> {JObj("retries" :> JNum(2))},
   options |-> {JObj(NoFields), JObj("timeout" :> JNum(50))},
   responses |-> { r \in Responses : r.status \in {200, 404, 500} },
   bodies |-> {Payload},
   trace |-> TRUE]

InitConcurrent == Start(ConcurrentEnv, [c \in Calls |-> "ready"])

SpecConcurrent == InitConcurrent /\ [][Next]_vars

\* One attempt of a call that runs with nothing else in flight: the fetch
\* (after the pending sleep, if any) and the way it ended.  r is the call
\* with the observer's record of it.
AttemptAlone(r, this, outcome) ==
  LET k0 == IF r.k.pc = "sleep" THEN OnSleepEnd(r.k, this) ELSE r.k
      h0 == IF r.k.pc = "sleep" THEN Observe(r.h, k0) ELSE r.h
      k1 == CASE outcome.kind = "network" ->
                   OnFetchRejected(k0, this, outcome.error)
              [] outcome.kind = "timeout" -> OnTimer(k0, this)
              [] OTHER ->
                   OnJson(OnFetchResolved(k0, [status |-> outcome.status,
                                               statusText |->
                                                 outcome.statusText]),
                          this, outcome.body)
  IN [k |-> k1, h |-> Observe(h0, k1)]

RECURSIVE Replay(_, _, _)
Replay(r, this, script) ==
  IF script = <<>>
    THEN r
    ELSE Replay(AttemptAlone(r, this, Head(script)), this, Tail(script))

\* request(endpoint, options) run alone on `this`, its attempts ending as
\* script says.
RunAlone(options, this, script) ==
  LET k == Enter(NewCall("ready"), this, options)
  IN Replay([k |-> k, h |-> Observe(NewHist, k)], this, script)

(***************************************************************************)
(* Wrapper methods: ContentApi.scrape (src/src/api/content.ts),            *)
(* Scrapebit.scrape (src/unnamed/part_001), MonitoringApi.create and get   *)
(* (src/src/api/monitoring.ts), DeepResearchApi.createSession and          *)
(* UsageApi.getApiRequestsRemaining (src/unnamed/part_004).                *)
(***************************************************************************)
MaxLimit == 3

MaxRequests == 4

\* UsageInfo, as far as getApiRequestsRemaining reads it.
UsageInfo(limit, today) ==
  JObj(("plan" :> JObj("api_rate_limit_per_day" :> limit))
       @@ ("api_requests_today" :> JNum(today)))

UsageInfos ==
  { UsageInfo(limit, today) :
      limit \in {JNull} \cup { JNum(n) : n \in 0 .. MaxLimit },
      today \in 0 .. MaxRequests }

\* ScrapeOptions values; the fourth is the README's multi-page example.
ScrapeOptionsSet ==
  { JObj("url" :> JStr("https://example.com/products")),
    JObj(("url" :> JStr("https://example.com/products"))
         @@ ("prompt" :> JStr("Extract all product names and prices"))),
    JObj(("url" :> JStr("https://example.com/team"))
         @@ ("prompt" :> JStr("Extract team member information"))
         @@ ("columns" :> JArr)),
    JObj(("url" :> JStr("https://example.com/listings"))
         @@ ("prompt" :> JStr("Extract all listing titles and prices"))
         @@ ("pagination" :>
               JObj(("nextButtonSelector" :> JStr(".next-page"))
                    @@ ("maxPages" :> JNum(5))
                    @@ ("delayMs" :> JNum(1000))))) }

\* Wrapper calls a caller can make: the method and its arguments.
ApiCalls ==
  { [method |-> "content.scrape", arg |-> o] : o \in ScrapeOptionsSet }
  \cup { [method |-> "scrape", arg |-> a] :
           a \in { JObj(("url" :> JStr("https://example.com/products"))
                        @@ ("prompt" :> JUndefined)),
                   JObj(("url" :> JStr("https://example.com/products"))
                        @@ ("prompt" :> JStr("Extract all prices"))) } }
  \cup { [method |-> "monitoring.create",
          arg |-> JObj(("name" :> JStr("Price Monitor"))
                       @@ ("url" :> JStr("https://example.com/product")))],
         [method |-> "monitoring.get", arg |-> JStr("mon_abc123")],
         [method |-> "deepResearch.createSession", arg |-> JUndefined],
         [method |-> "deepResearch.createSession",
          arg |-> JObj("name" :> JStr("Competitor Analysis"))],
         [method |-> "usage.getApiRequestsRemaining", arg |-> JUndefined] }

\* The methods that return `response.data`.
DataReaders ==
  {"monitoring.create", "monitoring.get", "deepResearch.createSession"}

\* ContentApi.scrape, lines 34-40: the body it posts.
scrape(options) ==
  JObj(("url" :> Get(options, "url"))
       @@ ("prompt" :> Get(options, "prompt"))
       @@ ("columns" :> Get(options, "columns")))

\* The endpoint and the options a wrapper method calls request with.
ApiRequest(method, arg) ==
  CASE method = "content.scrape" ->
         [endpoint |-> "/scrape", options |-> post(scrape(arg), JUndefined)]
    [] method = "scrape" ->
         [endpoint |-> "/scrape",
          options |-> post(scrape(JObj(("url" :> Get(arg, "url"))
                                       @@ ("prompt" :> Get(arg, "prompt")))),
                           JUndefined)]
    [] method = "monitoring.create" ->
         [endpoint |-> "/monitoring", options |-> post(arg, JUndefined)]
    [] method = "monitoring.get" ->
         [endpoint |-> "/monitoring/" \o ToStr(arg),
          options |-> get(JUndefined)]
    [] method = "deepResearch.createSession" ->
         [endpoint |-> "/deep-research/sessions",
          options |-> post(arg, JUndefined)]
    [] OTHER -> [endpoint |-> "/usage", options |-> get(JUndefined)]

\* getApiRequestsRemaining without the Math.max.
getApiRequestsRemaining_noClamp(usage) ==
  IF usage.t \in {"null", "undefined"} \/ ~Truthy(Get(usage, "plan"))
    THEN Throw(TypeError("Cannot read properties of undefined"))
    ELSE LET limit == Get(Get(usage, "plan"), "api_rate_limit_per_day")
             today == Get(usage, "api_requests_today")
         IN IF limit.t = "null"
              THEN Return(JNum(-1))
              ELSE IF limit.t = "number" /\ today.t = "number"
                     THEN Return(JNum(limit.n - today.n))
                     ELSE Return(JNaN)

\* UsageApi.getApiRequestsRemaining, lines 239-248, after `await this.get()`.
getApiRequestsRemaining(usage) ==
  IF usage.t \in {"null", "undefined"} \/ ~Truthy(Get(usage, "plan"))
    THEN Throw(TypeError("Cannot read properties of undefined"))
    ELSE LET limit == Get(Get(usage, "plan"), "api_rate_limit_per_day")
             today == Get(usage, "api_requests_today")
         IN IF limit.t = "null"
              THEN Return(JNum(-1))
              ELSE IF limit.t = "number" /\ today.t = "number"
                     THEN Return(JNum(IF limit.n - today.n > 0
                                        THEN limit.n - today.n ELSE 0))
                     ELSE Return(JNaN)

\* What a wrapper method does with the result of its request.
ApiResult(method, result) ==
  CASE method \in DataReaders ->
         IF result.t \in {"null", "undefined"}
           THEN Throw(TypeError("Cannot read properties of null (reading 'data')"))
           ELSE Return(Get(result, "data"))
    [] method = "usage.getApiRequestsRemaining" ->
         getApiRequestsRemaining(result)
    [] OTHER -> Return(result)

ApiEnv ==
  [keys |-> {ValidKey},
   configs |-> {JObj("retries" :> JNum(1))},
   options |-> {},
   calls |-> ApiCalls,
   responses |-> { r \in Responses : r.status \in {200, 500} },
   bodies |-> { JNull, Payload, JObj("data" :> Payload),
                JObj(("success" :> JBool(TRUE)) @@ ("data" :> Payload)) }
                \cup UsageInfos,
   trace |-> FALSE]

InitApi == Start(ApiEnv, [c \in Calls |-> IF c = 1 THEN "ready" ELSE "off"])

\* A wrapper method is called: it runs up to the first await of request.
Invoke(c) ==
  /\ sdk.state = "ready"
  /\ call[c].pc = "ready"
  /\ api[c].pc = "idle"
  /\ \E m \in env.calls :
       LET r == ApiRequest(m.method, m.arg)
           k == Enter(call[c], client, r.options)
       IN /\ call' = [call EXCEPT ![c] = k]
          /\ hist' = [hist EXCEPT ![c] = Observe(@, k)]
          /\ api' = [api EXCEPT ![c] =
                       [@ EXCEPT !.pc = "awaiting", !.method = m.method,
                                 !.arg = m.arg, !.endpoint = r.endpoint]]
  /\ UNCHANGED <<env, apiKey, config, sdk, client>>

\* The request of a wrapper method settled: the method returns or throws.
Resume(c) ==
  /\ api[c].pc = "awaiting"
  /\ call[c].pc \in {"returned", "thrown"}
  /\ LET outcome == IF call[c].pc = "thrown"
                      THEN Throw(call[c].raised[1])
                      ELSE ApiResult(api[c].method, call[c].result)
     IN api' = [api EXCEPT ![c] =
                  IF outcome.k = "return"
                    THEN [@ EXCEPT !.pc = "returned", !.value = outcome.value]
                    ELSE [@ EXCEPT !.pc = "thrown", !.raised = outcome.error]]
  /\ UNCHANGED <<env, apiKey, config, sdk, client, call, hist>>

NextApi ==
  \/ Construct
  \/ \E c \in Calls :
       \/ Invoke(c)
       \/ FetchResolves(c)
       \/ FetchRejects(c)
       \/ TimerFires(c)
       \/ JsonResolves(c)
       \/ JsonRejects(c)
       \/ SleepEnds(c)
       \/ Resume(c)

SpecApi == InitApi /\ [][NextApi]_vars

(***************************************************************************)
(* Timers always fire: the abort timer of fetchWithTimeout and the timer   *)
(* of sleep run to completion unless cleared.  Nothing is assumed of the   *)
(* server: a fetch or a response body may never complete.                  *)
(***************************************************************************)
TimersEnv ==
  [keys |-> {ValidKey},
   configs |-> {JObj("retries" :> JNum(1)), JObj("retries" :> JNum(2))},
   options |-> {JObj(NoFields), JObj("timeout" :> JNum(50))},
   responses |-> { r \in Responses : r.status \in {200, 404, 500} },
   bodies |-> {Payload, JObj("error" :> JStr("bad request"))},
   trace |-> FALSE]

InitTimers ==
  Start(TimersEnv, [c \in Calls |-> IF c = 1 THEN "ready" ELSE "off"])

SpecTimers ==
  /\ InitTimers
  /\ [][Next]_vars
  /\ \A c \in Calls : WF_vars(TimerFires(c)) /\ WF_vars(SleepEnds(c))

(***************************************************************************)
(* Properties of the request engine.                                       *)
(***************************************************************************)

\* C1 (as stated): when every attempt of a call got an HTTP 500, the call
\* makes exactly maxRetries + 1 fetches, maxRetries being the configured
\* retry count (3 when the configuration has none, 0 when it says 0), and
\* then raises a ServerError.
C1_RetryBound ==
  \A c \in Calls :
    LET maxRetries == IF HasKey(config, "retries")
                        THEN Get(config, "retries").n ELSE 3
    IN (maxRetries >= 0 /\ hist[c].all500 /\ hist[c].fetches >= 1) =>
         /\ hist[c].fetches <= maxRetries + 1
         /\ call[c].pc # "returned"
         /\ call[c].pc = "thrown" =>
              /\ hist[c].fetches = maxRetries + 1
              /\ call[c].raised[1].name = "ServerError"

\* C2 (as stated): an attempt that ends with a response whose status is in
\* [400,500) makes the call raise that attempt's error at once: no further
\* fetch and no backoff wait.
C2_NoRetryOnClientError ==
  [][\A c \in Calls :
       (/\ call[c].pc = "json"
        /\ call[c].response.status \in 400 .. 499
        /\ call'[c] # call[c])
       => /\ call'[c].pc = "thrown"
          /\ call'[c].raised = call'[c].lastError
          /\ hist'[c].fetches = hist[c].fetches
          /\ hist'[c].waits = hist[c].waits]_vars

\* C3 (as stated): an attempt that ends because its timer fired, with
\* attempts remaining (attempt < maxRetries), is followed by the backoff
\* wait and another attempt rather than by a raised Timeout.
C3_TimeoutRetried ==
  [][\A c \in Calls :
       (/\ call[c].pc = "fetch"
        /\ call'[c].timer = "fired"
        /\ call[c].attempt < client.retries)
       => /\ call'[c].pc = "sleep"
          /\ call'[c].raised = <<>>]_vars

\* C4: a transport failure that is not a timeout is a NetworkError without
\* status code; it is followed by the backoff sleep while the attempt index
\* is below the engine's retry count, and a call all of whose attempts
\* failed this way made retries + 1 fetches and raised a NetworkError.
C4_NetworkRetried ==
  /\ [](\A c \in Calls :
          /\ hist[c].last.kind = "network" =>
               /\ call[c].lastError # <<>>
               /\ call[c].lastError[1].name = "NetworkError"
               /\ call[c].lastError[1].scrapebit
               /\ call[c].lastError[1].statusCode = JUndefined
          /\ (/\ call[c].pc \in {"returned", "thrown"}
              /\ hist[c].allNetwork
              /\ hist[c].fetches >= 1) =>
               /\ call[c].pc = "thrown"
               /\ call[c].raised = call[c].lastError
               /\ call[c].raised[1].name = "NetworkError"
               /\ hist[c].fetches = client.retries + 1)
  /\ [][\A c \in Calls :
          (call[c].pc = "fetch" /\ call'[c].transport = "failed") =>
            IF call[c].attempt < client.retries
              THEN call'[c].pc = "sleep" /\ call'[c].raised = <<>>
              ELSE call'[c].pc = "thrown"]_vars

\* C4 witness: a call that was retried after transport failures and, every
\* attempt having failed this way, raised the NetworkError.
C4_Witness ==
  \E c \in Calls :
    /\ call[c].pc = "thrown"
    /\ hist[c].allNetwork
    /\ hist[c].fetches >= 2
    /\ hist[c].fetches = client.retries + 1
    /\ call[c].raised[1].name = "NetworkError"

\* C5: the k-th backoff wait of a call (k counted from 0, after failed
\* attempt k) is min(1000 * 2^k, 10000) ms: 1000, 2000, 4000, 8000, 10000,
\* 10000, ...; there is no wait before the first fetch and none after the
\* last one: the waits are one fewer than the fetches once the call is past
\* a sleep, and never more than the retry count.
C5_BackoffSchedule ==
  \A c \in Calls :
    /\ \A i \in 1 .. Len(hist[c].waits) :
         hist[c].waits[i] = CASE i = 1 -> 1000
                              [] i = 2 -> 2000
                              [] i = 3 -> 4000
                              [] i = 4 -> 8000
                              [] OTHER -> 10000
    /\ hist[c].fetches = 0 => hist[c].waits = <<>>
    /\ call[c].pc = "sleep" => Len(hist[c].waits) = hist[c].fetches
    /\ call[c].pc \in {"fetch", "json", "returned"} =>
         Len(hist[c].waits) = hist[c].fetches - 1
    /\ (call[c].pc = "thrown" /\ hist[c].fetches >= 1) =>
         Len(hist[c].waits) = hist[c].fetches - 1
    /\ Len(hist[c].waits) <= IF client.retries > 0 THEN client.retries ELSE 0

\* C5 witness: a call that slept five times, the fifth wait being the cap.
C5_Witness ==
  \E c \in Calls :
    /\ Len(hist[c].waits) >= 5
    /\ hist[c].waits[4] = 8000
    /\ hist[c].waits[5] = 10000

\* C6 (as stated): when the timer of an attempt fires, the fetch is aborted
\* and the attempt ends with a TimeoutError that carries the effective
\* timeout: the per-call timeout when the options give one, otherwise the
\* engine's default; the attempt does not go on waiting for the fetch.
C6_TimeoutRaceAsStated ==
  \A c \in Calls :
    call[c].timer = "fired" =>
      LET effective == IF HasKey(call[c].options, "timeout")
                         THEN Get(call[c].options, "timeout").n
                         ELSE client.timeout
      IN /\ call[c].pc # "fetch"
         /\ call[c].transport = "aborted"
         /\ call[c].timerMs = effective
         /\ call[c].lastError # <<>>
         /\ call[c].lastError[1].name = "TimeoutError"
         /\ call[c].lastError[1].details = JObj("timeoutMs" :> JNum(effective))

\* C6 (amended): the same, the effective timeout being the per-call timeout
\* when the options give a non-zero one, otherwise the engine's default.
C6_TimeoutRace ==
  \A c \in Calls :
    call[c].timer = "fired" =>
      LET effective == IF /\ HasKey(call[c].options, "timeout")
                          /\ Get(call[c].options, "timeout").n # 0
                         THEN Get(call[c].options, "timeout").n
                         ELSE client.timeout
      IN /\ call[c].pc # "fetch"
         /\ call[c].transport = "aborted"
         /\ call[c].timerMs = effective
         /\ call[c].lastError # <<>>
         /\ call[c].lastError[1].name = "TimeoutError"
         /\ call[c].lastError[1].details = JObj("timeoutMs" :> JNum(effective))

\* C6 witness: the timer of a call with a per-call timeout of 50 ms fired
\* on an engine whose default differs, and the error carries 50.
C6_Witness ==
  \E c \in Calls :
    /\ call[c].timer = "fired"
    /\ Get(call[c].options, "timeout") = JNum(50)
    /\ client.timeout # 50
    /\ call[c].lastError[1].details = JObj("timeoutMs" :> JNum(50))

\* C7 (as stated): a call that raises raises an error of the structured
\* taxonomy, an instance of ScrapebitError.
C7_StructuredErrorsOnly ==
  \A c \in Calls :
    call[c].pc = "thrown" =>
      /\ call[c].raised # <<>>
      /\ call[c].raised[1].scrapebit

\* C8 (as stated): after a 2xx response whose body decoded, the call has
\* returned the body's `data` when the body has both a `success` and a
\* `data` key, and the body itself otherwise.
C8_EnvelopeUnwrapping ==
  \A c \in Calls :
    (/\ hist[c].last.kind = "http"
     /\ hist[c].last.status \in 200 .. 299
     /\ hist[c].last.body # JsonRejected) =>
      /\ call[c].pc = "returned"
      /\ call[c].result =
           IF /\ "success" \in DOMAIN hist[c].last.body.f
              /\ "data" \in DOMAIN hist[c].last.body.f
             THEN hist[c].last.body.f["data"]
             ELSE hist[c].last.body

\* C9: after a 2xx response whose body could not be decoded, the call has
\* returned the empty object and raised nothing; being returned, it makes
\* no further attempt.
C9_DecodeFailureOnSuccess ==
  \A c \in Calls :
    (/\ hist[c].last.kind = "http"
     /\ hist[c].last.status \in 200 .. 299
     /\ hist[c].last.body = JsonRejected) =>
      /\ call[c].pc = "returned"
      /\ call[c].result = JObj(NoFields)
      /\ call[c].raised = <<>>

\* C9 witness: a 204 without body, answered with the empty object.
C9_Witness ==
  \E c \in Calls :
    /\ hist[c].last.kind = "http"
    /\ hist[c].last.status = 204
    /\ hist[c].last.body = JsonRejected
    /\ call[c].pc = "returned"
    /\ call[c].result = JObj(NoFields)

\* C10 (as stated): every ServerError a call raises carries a status code
\* of at least 500.
C10_ServerStatus ==
  \A c \in Calls :
    (call[c].raised # <<>> /\ call[c].raised[1].name = "ServerError") =>
      /\ call[c].raised[1].statusCode.t = "number"
      /\ call[c].raised[1].statusCode.n >= 500

\* C11 (as stated): after a response with a status outside 200..299 whose
\* body decoded to an object, the error of the attempt is the variant the
\* status names: 401 Authentication, 402 InsufficientCredits, 403
\* Authorization, 404 NotFound, 429 RateLimit, 500 and above Server, any
\* other status a generic ScrapebitError with the response status and the
\* body's `code` (else 'API_ERROR'); where the variant takes a message, it
\* is the body's `error` field, else its `message` field, else a fixed text.
C11_StatusClassification ==
  \A c \in Calls :
    LET status == hist[c].last.status
        body == hist[c].last.body
        variant == CASE status = 401 -> "AuthenticationError"
                     [] status = 402 -> "InsufficientCreditsError"
                     [] status = 403 -> "AuthorizationError"
                     [] status = 404 -> "NotFoundError"
                     [] status = 429 -> "RateLimitError"
                     [] status >= 500 -> "ServerError"
                     [] OTHER -> "ScrapebitError"
    IN (/\ hist[c].last.kind = "http"
        /\ status \notin 200 .. 299
        /\ body.t = "object") =>
         /\ call[c].lastError # <<>>
         /\ LET e == call[c].lastError[1]
            IN /\ e.name = variant
               /\ variant = "ScrapebitError" =>
                    /\ e.statusCode = JNum(status)
                    /\ e.code = IF HasKey(body, "code")
                                  THEN ToStr(body.f["code"]) ELSE "API_ERROR"
               /\ variant \in {"AuthenticationError", "AuthorizationError",
                               "ServerError", "ScrapebitError"} =>
                    IF HasKey(body, "error")
                      THEN JStr(e.message) = body.f["error"]
                      ELSE IF HasKey(body, "message")
                             THEN JStr(e.message) = body.f["message"]
                             ELSE e.message = "Unknown error"

\* C12 (as stated): after a response with status 404, whatever its body,
\* the call has raised a NotFoundError with status code 404 and the message
\* 'Resource not found'.
C12_NotFoundAlways ==
  \A c \in Calls :
    (hist[c].last.kind = "http" /\ hist[c].last.status = 404) =>
      /\ call[c].pc = "thrown"
      /\ call[c].raised[1].name = "NotFoundError"
      /\ call[c].raised[1].statusCode = JNum(404)
      /\ call[c].raised[1].message = "Resource not found"

\* C13 (as stated): after a response with status 402 the error of the
\* attempt is an InsufficientCreditsError whose creditsRequired and
\* creditsRemaining are numbers: the body's fields when the body has them,
\* 1 and 0 when it has not.
C13_CreditsDefaulting ==
  \A c \in Calls :
    LET body == hist[c].last.body
        supplied(field) == body.t = "object" /\ HasKey(body, field)
    IN (hist[c].last.kind = "http" /\ hist[c].last.status = 402) =>
         /\ call[c].lastError # <<>>
         /\ LET e == call[c].lastError[1]
            IN /\ e.name = "InsufficientCreditsError"
               /\ e.own["creditsRequired"] =
                    IF supplied("creditsRequired")
                      THEN body.f["creditsRequired"] ELSE JNum(1)
               /\ e.own["creditsRemaining"] =
                    IF supplied("creditsRemaining")
                      THEN body.f["creditsRemaining"] ELSE JNum(0)
               /\ e.own["creditsRequired"].t = "number"
               /\ e.own["creditsRemaining"].t = "number"

\* C14 (as stated): after a response with status 429 the error of the
\* attempt is a RateLimitError; its retryAfter is the number the body's
\* `retryAfter` field gives when that field is a number or a decimal
\* numeral, and is undefined when the field is missing or anything else.
C14_RateLimitHint ==
  \A c \in Calls :
    LET body == hist[c].last.body
        field == IF body.t = "object" /\ HasKey(body, "retryAfter")
                   THEN body.f["retryAfter"] ELSE JUndefined
        hint == CASE field.t = "number" -> field
                  [] field.t = "string" /\ field.s \in {"0", "30"} ->
                       JNum(Numerals[field.s])
                  [] OTHER -> JUndefined
    IN (hist[c].last.kind = "http" /\ hist[c].last.status = 429) =>
         /\ call[c].lastError # <<>>
         /\ call[c].lastError[1].name = "RateLimitError"
         /\ call[c].lastError[1].own["retryAfter"] = hint

\* C15 (as stated): every fetch of every call is given the header
\* Authorization with the value 'Bearer ' followed by the client's API key,
\* whatever the configured and the per-call headers are.
C15_AuthorizationAsStated ==
  \A c \in Calls :
    hist[c].fetches > 0 =>
      Get(hist[c].sent, "Authorization") = JStr("Bearer " \o client.apiKey.s)

\* C15 (amended): when neither the configured extra headers nor the
\* per-call headers have an entry named Authorization, in any letter case,
\* every fetch of the call is given the entry Authorization with the value
\* 'Bearer ' followed by the client's API key, and no other entry of that
\* name.
C15_Authorization ==
  \A c \in Calls :
    LET given == DOMAIN client.customHeaders.f
                   \cup DOMAIN Get(call[c].options, "headers").f
    IN (/\ hist[c].fetches > 0
        /\ \A name \in given : Lower(name) # "authorization") =>
         /\ hist[c].sent.t = "object"
         /\ \A name \in DOMAIN hist[c].sent.f :
              Lower(name) = "authorization" =>
                /\ name = "Authorization"
                /\ hist[c].sent.f[name] = JStr("Bearer " \o apiKey.s)
         /\ "Authorization" \in DOMAIN hist[c].sent.f

\* C15 witness: the second fetch of a call with configured and per-call
\* headers, neither named Authorization.
C15_Witness ==
  \E c \in Calls :
    /\ hist[c].fetches = 2
    /\ call[c].pc = "fetch"
    /\ DOMAIN client.customHeaders.f = {"X-Trace", "Content-Type"}
    /\ DOMAIN Get(call[c].options, "headers").f = {"X-Trace", "User-Agent"}
    /\ Get(hist[c].sent, "Authorization") = JStr("Bearer invalid_key")

\* C16: the headers given to fetch have exactly the names of the built-in
\* set (Authorization, Content-Type, User-Agent), of the configured extra
\* headers and of the per-call headers; the value of a name is the per-call
\* one when the per-call headers have the name, else the configured one
\* when the configured headers have it, else the built-in one.
C16_HeaderPrecedence ==
  \A c \in Calls :
    LET builtin == ("Authorization" :> JStr("Bearer " \o apiKey.s))
                   @@ ("Content-Type" :> JStr("application/json"))
                   @@ ("User-Agent" :> JStr("scrapebit-sdk-node/1.0.0"))
        extra == Get(config, "headers").f
        perCall == Get(call[c].options, "headers").f
    IN hist[c].fetches > 0 =>
         /\ DOMAIN hist[c].sent.f
              = DOMAIN builtin \cup DOMAIN extra \cup DOMAIN perCall
         /\ \A name \in DOMAIN hist[c].sent.f :
              hist[c].sent.f[name] =
                IF name \in DOMAIN perCall THEN perCall[name]
                ELSE IF name \in DOMAIN extra THEN extra[name]
                ELSE builtin[name]

\* C16 witness: a fetch whose X-Trace comes from the per-call headers,
\* whose Content-Type comes from the configured headers, both sets having
\* X-Trace, and whose Authorization is the built-in one.
C16_Witness ==
  \E c \in Calls :
    /\ hist[c].fetches > 0
    /\ "X-Trace" \in DOMAIN Get(config, "headers").f
    /\ "X-Trace" \in DOMAIN Get(call[c].options, "headers").f
    /\ Get(hist[c].sent, "X-Trace") = JStr("call")
    /\ Get(hist[c].sent, "Content-Type") = JStr("text/plain")
    /\ Get(hist[c].sent, "Authorization") = JStr("Bearer sb_live_key")

\* C17: once the constructor ran with the empty string as key, it has
\* thrown a ValidationError with the message 'API key is required'; there
\* is no HttpClient and no API module, and no call has fetched or started.
C17_EmptyKeyRejected ==
  (apiKey = JStr("") /\ sdk.state # "new") =>
    /\ sdk.state = "failed"
    /\ sdk.error # <<>>
    /\ sdk.error[1].name = "ValidationError"
    /\ sdk.error[1].message = "API key is required"
    /\ sdk.http = NoClient
    /\ client = NoClient
    /\ sdk.modules = {}
    /\ \A c \in Calls : hist[c].fetches = 0 /\ call[c].pc \in {"ready", "off"}

\* C17 witness: the constructor ran with the empty string and threw.
C17_Witness ==
  apiKey = JStr("") /\ sdk.state = "failed" /\ sdk.error # <<>>

\* C18 (as stated): once the constructor ran with a key that is not a
\* string, it has thrown a ValidationError with the message 'API key must
\* be a string'; there is no HttpClient and no call has fetched.
C18_NonStringKeyAsStated ==
  (apiKey.t # "string" /\ sdk.state # "new") =>
    /\ sdk.state = "failed"
    /\ sdk.error[1].name = "ValidationError"
    /\ sdk.error[1].message = "API key must be a string"
    /\ client = NoClient
    /\ \A c \in Calls : hist[c].fetches = 0

\* C18 (amended): once the constructor ran with a key that is not a
\* string, it has thrown a ValidationError, there is no HttpClient and no
\* call has fetched; the message is 'API key must be a string' for a truthy
\* key (a non-zero number, true, an object) and 'API key is required' for a
\* falsy one (0, NaN, false, null, undefined).
C18_NonStringKeyRejected ==
  (apiKey.t # "string" /\ sdk.state # "new") =>
    /\ sdk.state = "failed"
    /\ sdk.error # <<>>
    /\ sdk.error[1].name = "ValidationError"
    /\ sdk.error[1].message =
         IF \/ apiKey.t = "object"
            \/ apiKey.t = "number" /\ apiKey.n # 0
            \/ apiKey.t = "boolean" /\ apiKey.n = 1
           THEN "API key must be a string"
           ELSE "API key is required"
    /\ sdk.http = NoClient
    /\ client = NoClient
    /\ \A c \in Calls : hist[c].fetches = 0 /\ call[c].pc \in {"ready", "off"}

\* C18 witness: the constructor ran with the number 123 and threw the
\* 'must be a string' error.
C18_Witness ==
  /\ apiKey = JNum(123)
  /\ sdk.state = "failed"
  /\ sdk.error[1].message = "API key must be a string"

\* C19: once the constructor ran with a non-empty string as key, the client
\* is complete: it has its HttpClient, built from the key and the
\* configuration, and all eight API modules; it has printed exactly one
\* warning when the key does not start with 'sb_live_' and none when it
\* does.
C19_PrefixWarning ==
  (apiKey.t = "string" /\ apiKey.s # "" /\ sdk.state # "new") =>
    /\ sdk.state = "ready"
    /\ sdk.error = <<>>
    /\ sdk.http # NoClient
    /\ sdk.http.apiKey = apiKey
    /\ client = sdk.http
    /\ sdk.modules = ApiModules
    /\ Cardinality(sdk.modules) = 8
    /\ Len(sdk.warnings) = IF apiKey.s \in {"sb_live_key", "sb_live_"}
                             THEN 0 ELSE 1

\* C19 witness: a client built with the key 'invalid_key' printed one
\* warning and its request returned a result.
C19_Witness ==
  /\ apiKey = JStr("invalid_key")
  /\ Len(sdk.warnings) = 1
  /\ \E c \in Calls : call[c].pc = "returned" /\ hist[c].fetches > 0

\* C20: with two calls in flight on one client, a call that is between
\* attempts or has finished is exactly where it would be had it run alone
\* with the same options and the same outcomes of its attempts: same attempt
\* counter, same result or error, same number of fetches, same headers and
\* same backoff delays; and while one call sleeps, every step the other
\* call is waiting for can be taken.
C20_ConcurrentIndependence ==
  \A c \in Calls :
    /\ call[c].pc \in {"sleep", "returned", "thrown"} =>
         LET alone == RunAlone(call[c].options, client, hist[c].script)
         IN /\ call[c] = alone.k
            /\ hist[c].fetches = alone.h.fetches
            /\ hist[c].sent = alone.h.sent
            /\ hist[c].waits = alone.h.waits
    /\ \A d \in Calls \ {c} :
         call[c].pc = "sleep" =>
           /\ call[d].pc = "ready" => ENABLED Request(d)
           /\ call[d].pc = "fetch" =>
                /\ ENABLED FetchResolves(d)
                /\ ENABLED FetchRejects(d)
                /\ ENABLED TimerFires(d)
           /\ call[d].pc = "json" =>
                ENABLED JsonResolves(d) /\ ENABLED JsonRejects(d)
           /\ call[d].pc = "sleep" => ENABLED SleepEnds(d)

\* C20 witness: call 1 is in its second backoff sleep after two failed
\* attempts while call 2 has returned the payload of its only fetch.
C20_Witness ==
  /\ call[1].pc = "sleep"
  /\ hist[1].waits = <<1000, 2000>>
  /\ hist[1].fetches = 2
  /\ call[2].pc = "returned"
  /\ call[2].result = Payload
  /\ hist[2].fetches = 1

\* C21 (as stated): no attempt of a call ends with a ValidationError and no
\* call raises one; after a response with status 400 the error of the
\* attempt is the generic ScrapebitError with status code 400.
C21_NoValidationFromEngine ==
  \A c \in Calls :
    /\ call[c].lastError # <<>> => call[c].lastError[1].name # "ValidationError"
    /\ call[c].raised # <<>> => call[c].raised[1].name # "ValidationError"
    /\ (hist[c].last.kind = "http" /\ hist[c].last.status = 400) =>
         /\ call[c].lastError # <<>>
         /\ call[c].lastError[1].name = "ScrapebitError"
         /\ call[c].lastError[1].statusCode = JNum(400)

\* C22 (as stated): the fetch of content.scrape and of the facade's scrape
\* is a POST to /scrape whose body has every option the caller supplied,
\* with the caller's value.
C22_ScrapeOptionsForwarded ==
  \A c \in Calls :
    (api[c].method \in {"content.scrape", "scrape"} /\ hist[c].fetches > 0) =>
      /\ api[c].endpoint = "/scrape"
      /\ hist[c].init.method = "POST"
      /\ hist[c].init.body.t = "object"
      /\ \A name \in DOMAIN api[c].arg.f :
           api[c].arg.f[name].t # "undefined" =>
             /\ name \in DOMAIN hist[c].init.body.f
             /\ hist[c].init.body.f[name] = api[c].arg.f[name]

\* C23: when getApiRequestsRemaining returns, with usage the result of its
\* request, limit the plan's api_rate_limit_per_day and today the
\* api_requests_today: the value is -1 exactly when limit is null, and
\* otherwise it is limit - today when that is positive and 0 when it is
\* not; it is a number and never below -1.
C23_RequestsRemaining ==
  \A c \in Calls :
    (api[c].method = "usage.getApiRequestsRemaining"
       /\ api[c].pc = "returned") =>
      LET usage == call[c].result
          limit == usage.f["plan"].f["api_rate_limit_per_day"]
          today == usage.f["api_requests_today"]
      IN /\ api[c].value.t = "number"
         /\ api[c].value.n >= -1
         /\ api[c].value = JNum(-1) <=> limit = JNull
         /\ limit # JNull =>
              /\ limit.n - today.n > 0 => api[c].value.n = limit.n - today.n
              /\ today.n >= limit.n => api[c].value.n = 0

\* C23 witness: more requests today than the limit allows, and 0 returned.
C23_Witness ==
  \E c \in Calls :
    /\ api[c].method = "usage.getApiRequestsRemaining"
    /\ api[c].pc = "returned"
    /\ call[c].result.f["plan"].f["api_rate_limit_per_day"] # JNull
    /\ call[c].result.f["api_requests_today"].n
         > call[c].result.f["plan"].f["api_rate_limit_per_day"].n
    /\ api[c].value = JNum(0)

\* C30 (as stated): once a method that returns `response.data` has settled
\* after a 2xx response whose body is {success: true, data: P} or
\* {data: P}, it has returned P.
C30_WrapperEnvelopeShapes ==
  \A c \in Calls :
    LET body == hist[c].last.body
    IN (/\ api[c].method \in DataReaders
        /\ api[c].pc \in {"returned", "thrown"}
        /\ hist[c].last.kind = "http"
        /\ hist[c].last.status \in 200 .. 299
        /\ body.t = "object"
        /\ \/ DOMAIN body.f = {"data"}
           \/ /\ DOMAIN body.f = {"success", "data"}
              /\ body.f["success"] = JBool(TRUE)) =>
         /\ api[c].pc = "returned"
         /\ api[c].value = body.f["data"]

C25_ErrorOnExhaustion ==
  [][\A c \in Calls :
       (/\ call[c].pc \in {"fetch", "json"}
        /\ call'[c].pc \notin {"fetch", "json"}
        /\ call[c].attempt = client.retries
        /\ \/ hist'[c].last.kind \in {"network", "timeout"}
           \/ hist'[c].last.kind = "http" /\ hist'[c].last.status >= 500)
       => /\ call'[c].pc = "thrown"
          /\ call'[c].raised # <<>>
          /\ call'[c].raised[1].name =
               CASE hist'[c].last.kind = "network" -> "NetworkError"
                 [] hist'[c].last.kind = "timeout" -> "TimeoutError"
                 [] OTHER -> "ServerError"
          /\ hist'[c].last.kind = "http" =>
               call'[c].raised[1].statusCode = JNum(hist'[c].last.status)
          /\ hist'[c].waits = hist[c].waits
          /\ hist'[c].fetches = hist[c].fetches]_vars

\* C26 (as stated): when the decoding of a 2xx response ends, whatever the
\* earlier attempts of the call were, the call returns in that step: its
\* result is the empty object for a body that did not decode, the `data` of
\* a body with `success` and `data`, else the body; it has raised nothing
\* and it makes no further fetch.
C26_RecoveredSuccess ==
  [][\A c \in Calls :
       (/\ call[c].pc = "json"
        /\ call[c].response.status \in 200 .. 299
        /\ call'[c] # call[c])
       => LET body == hist'[c].last.body
          IN /\ call'[c].pc = "returned"
             /\ call'[c].raised = <<>>
             /\ call'[c].result =
                  IF body = JsonRejected THEN JObj(NoFields)
                  ELSE IF HasKey(body, "success") /\ HasKey(body, "data")
                         THEN body.f["data"] ELSE body
             /\ hist'[c].fetches = hist[c].fetches
             /\ hist'[c].waits = hist[c].waits]_vars

\* C28: the timer of a call is pending only while its fetch is in flight;
\* after a response or a transport failure the timer is cleared; after the
\* timer fired the fetch is aborted; so during the decoding of a response,
\* during a backoff sleep and after the call nothing is left that could
\* fire.
C28_LoserReleased ==
  \A c \in Calls :
    /\ call[c].timer = "pending" <=> call[c].pc = "fetch"
    /\ call[c].pc = "fetch" => call[c].transport = "inflight"
    /\ call[c].transport \in {"responded", "failed"} => call[c].timer = "cleared"
    /\ call[c].timer = "fired" <=> call[c].transport = "aborted"
    /\ (call[c].pc \in {"json", "sleep", "returned", "thrown"}
          /\ hist[c].fetches > 0) =>
         /\ call[c].timer \in {"cleared", "fired"}
         /\ call[c].transport # "inflight"
         /\ ~ENABLED TimerFires(c)

\* C28 witness: a call in a backoff sleep after its fetch got a response,
\* the timer cleared.
C28_Witness ==
  \E c \in Calls :
    /\ call[c].pc = "sleep"
    /\ call[c].transport = "responded"
    /\ call[c].timer = "cleared"

\* C29 (as stated): a call that has raised made at least one fetch, and
\* the error it raised is the error of its last attempt.
C29_AtLeastOneAttempt ==
  \A c \in Calls :
    call[c].pc = "thrown" =>
      /\ hist[c].fetches >= 1
      /\ hist[c].last.kind # "none"
      /\ call[c].raised = call[c].lastError

\* C27 (as stated): timers firing whenever they stay pending, a call that
\* has started eventually returns or raises, whatever the server does.
C27_Termination ==
  \A c \in Calls :
    (call[c].pc \in {"fetch", "json", "sleep"})
      ~> (call[c].pc \in {"returned", "thrown"})

====
